---- MODULE Spec2Model ----
(***************************************************************************)
(* Model of pyvista/plotting/_plotting.py: prepare_smooth_shading and      *)
(* process_opacity.                                                        *)
(*                                                                         *)
(* A mesh is a record                                                      *)
(*   poly   : isinstance(mesh, pyvista.PolyData)                           *)
(*   points : the point coordinates, one label per point                  *)
(*   pd     : mesh.point_data, a function from array names to arrays       *)
(*   sharp  : geometry, the largest dihedral angle at each point           *)
(*   surf   : geometry, the 0-based ids of the points on the boundary      *)
(*            surface, in the order surface extraction emits them          *)
(* numpy arrays are sequences; numpy indices are 0-based, so a[k] of the   *)
(* source is a[k + 1] here.                                                *)
(***************************************************************************)
EXTENDS Integers, Sequences, FiniteSets, TLC

\* ------------------------------------------------------------------ bounds
MaxPoints == 3
MaxElems == 2

\* ---------------------------------------------------------- shared helpers
None == [none |-> TRUE, val |-> <<>>]
Some(v) == [none |-> FALSE, val |-> v]

Range(s) == {s[i] : i \in DOMAIN s}

\* numpy fancy indexing a[ind] succeeds only with every index in range
InBounds(a, ind) == \A i \in DOMAIN ind : ind[i] >= 0 /\ ind[i] < Len(a)

\* numpy fancy indexing a[ind], ind an integer array of 0-based indices
Take(a, ind) == [i \in 1..Len(ind) |-> a[ind[i] + 1]]

\* np.arange(n)
arange(n) == [i \in 1..n |-> i - 1]

RECURSIVE Ascending(_)
Ascending(S) ==
    IF S = {} THEN <<>>
    ELSE LET m == CHOOSE x \in S : \A y \in S : x <= y
         IN <<m>> \o Ascending(S \ {m})

\* ------------------------------------------------------- array names used
OrigIds == "__orig_ids__"
VtkIds == "vtkOriginalPointIds"
TCoords == "Texture Coordinates"
Normals == "Normals"
NoArray == "None"

\* mesh.point_data[name] = arr
SetArray(m, name, arr) ==
    [m EXCEPT !.pd = [k \in DOMAIN m.pd \cup {name} |->
                         IF k = name THEN arr ELSE m.pd[k]]]

\* del mesh.point_data[name]
DelArray(m, name) ==
    [m EXCEPT !.pd = [k \in DOMAIN m.pd \ {name} |-> m.pd[k]]]

n_points(m) == Len(m.points)

\* -------------------------------------------- collaborators of the dataset
\* The data passes through a filter: every per-point array follows its point.
PassPoints(m, ind) ==
    [m EXCEPT !.points = Take(m.points, ind),
              !.sharp = Take(m.sharp, ind),
              !.pd = [k \in DOMAIN m.pd |-> Take(m.pd[k], ind)]]

\* mesh.extract_surface(): a new surface mesh of the boundary points, with
\* the original point ids of its points in vtkOriginalPointIds
extract_surface(m) ==
    LET s == PassPoints(m, m.surf)
    IN [SetArray(s, VtkIds, m.surf) EXCEPT
            !.poly = TRUE, !.surf = arange(Len(m.surf))]

\* the points an edge split duplicates: those on an edge sharper than the angle
SplitIds(m, feature_angle) ==
    Ascending({i - 1 : i \in {j \in 1..n_points(m) : m.sharp[j] > feature_angle}})

\* mesh.compute_normals(cell_normals=False, split_vertices=..., feature_angle=...):
\* the points, then one duplicate of every split point; point normals added
compute_normals(m, split_vertices, feature_angle) ==
    LET dup == IF split_vertices THEN SplitIds(m, feature_angle) ELSE <<>>
        ind == arange(n_points(m)) \o dup
        out == PassPoints(m, ind)
        done == SetArray(out, Normals, [i \in 1..Len(ind) |-> i])
    IN IF split_vertices
       THEN [done EXCEPT !.surf = arange(Len(ind)),
                         !.sharp = [i \in 1..Len(ind) |-> 0]]
       ELSE done

\* -------------------------------------------------- prepare_smooth_shading
\* which array holds the original ids
IndicesArray(is_polydata, split_sharp_edges) ==
    IF split_sharp_edges /\ is_polydata THEN OrigIds
    ELSE IF ~is_polydata THEN VtkIds
    ELSE NoArray

\* scalars = np.asarray(scalars)[ind] when scalars and an index array exist
ReindexScalarsNoIndex(m, scalars, indices_array) == scalars

ReindexScalars(m, scalars, indices_array) ==
    IF ~scalars.none /\ indices_array # NoArray
    THEN Some(Take(scalars.val, m.pd[indices_array]))
    ELSE scalars

\* the whole call; mesh0 is the caller's object.  The result records the
\* returned pair, the exception if one is raised, the caller's object after
\* the call, and whether the returned mesh is the caller's object.
prepare_smooth_shading(mesh0, scalars, texture, split_sharp_edges, feature_angle) ==
    LET is_polydata == mesh0.poly
        extracted == IF ~is_polydata THEN extract_surface(mesh0) ELSE mesh0
        tcoords == extracted.pd[TCoords]
        indices_array == IndicesArray(is_polydata, split_sharp_edges)
        tagged == IF split_sharp_edges /\ is_polydata
                  THEN SetArray(extracted, OrigIds, arange(n_points(extracted)))
                  ELSE extracted
        withN == compute_normals(tagged, split_sharp_edges, feature_angle)
        \* the caller's object: written when it is the object worked on
        caller == IF ~is_polydata THEN mesh0
                  ELSE IF split_sharp_edges THEN tagged
                  ELSE withN
        scalars1 == ReindexScalars(withN, scalars, indices_array)
        ind == withN.pd[indices_array]
        raises == texture /\ indices_array # NoArray /\ ~InBounds(tcoords, ind)
        tcoords1 == IF indices_array # NoArray THEN Take(tcoords, ind) ELSE tcoords
        withT == IF texture THEN SetArray(withN, TCoords, tcoords1) ELSE withN
        final == IF indices_array = OrigIds THEN DelArray(withT, OrigIds) ELSE withT
        same == is_polydata /\ ~split_sharp_edges
    IN IF raises
       THEN [status |-> "IndexError", mesh |-> mesh0, scalars |-> None,
             caller |-> caller, same |-> FALSE]
       ELSE [status |-> "ok", mesh |-> final, scalars |-> scalars1,
             caller |-> IF same THEN final ELSE caller, same |-> same]

\* --------------------------------------------------------- process_opacity
\* Opacity values are fixed-point numbers counted in halves: Fixed(1) is 1.0,
\* 1 is 0.5, 3 is 1.5, Fixed(255) is 255.
Fixed(x) == 2 * x

\* an opacity argument or result: a str, a numpy array/list/tuple, or a float
Str(name) == [type |-> "str", val |-> name]
Arr(a) == [type |-> "array", val |-> a]
Float(x) == [type |-> "float", val |-> x]

Max(S) == CHOOSE x \in S : \A y \in S : y <= x

\* np.max(opacity)
np_max(opacity) ==
    IF opacity.type = "array" THEN Max(Range(opacity.val)) ELSE opacity.val

\* get_array(mesh, name, preference=preference, err=True): the point or the
\* cell array of that name, by preference when both exist; raises when none
get_array(m, name, preference) ==
    LET inP == name \in DOMAIN m.point_data
        inC == name \in DOMAIN m.cell_data
    IN IF inP /\ inC
       THEN [found |-> TRUE,
             val |-> IF preference = "cell" THEN m.cell_data[name]
                     ELSE m.point_data[name]]
       ELSE IF inP THEN [found |-> TRUE, val |-> m.point_data[name]]
       ELSE IF inC THEN [found |-> TRUE, val |-> m.cell_data[name]]
       ELSE [found |-> FALSE, val |-> <<>>]

\* opacity_transfer_function(mapping, n_colors): a curve of n_colors samples,
\* a ramp up to 255 for a preset name, the control points resampled otherwise
opacity_transfer_function(mapping, n_colors) ==
    IF mapping.type = "str"
    THEN [i \in 1..n_colors |-> Fixed((i * 255) \div n_colors)]
    ELSE [i \in 1..n_colors |->
              mapping.val[((i - 1) * Len(mapping.val)) \div n_colors + 1]]

\* lines 130-133: the advisory range warnings (warnings.warn under Python's
\* default filter: the warning is reported and execution goes on)
RangeWarnings(a) ==
    (IF \E i \in DOMAIN a : a[i] > Fixed(1)
     THEN {"Opacity scalars contain values over 1"} ELSE {})
    \cup
    (IF \E i \in DOMAIN a : a[i] < 0
     THEN {"Opacity scalars contain values less than 0"} ELSE {})

\* lines 138-143: the else clause of the try statement, run when the lookup
\* raised nothing; its own exceptions are not caught by the except clause
LengthCheckSwallowed(scalars, a) ==
    IF scalars.none THEN "AttributeError" ELSE "ok"

LengthCheck(scalars, a) ==
    IF scalars.none THEN "AttributeError"
    ELSE IF Len(scalars.val) # Len(a) THEN "ValueError"
    ELSE "ok"

\* lines 125-143: opacity is a str
StringBranchNoFallback(m, opacity, preference, n_colors, scalars) ==
    LET got == get_array(m, opacity.val, preference)
    IN [status |-> IF got.found THEN LengthCheck(scalars, got.val) ELSE "ok",
        custom |-> TRUE, opacity |-> Arr(got.val),
        warnings |-> RangeWarnings(got.val)]

StringBranchClipped(m, opacity, preference, n_colors, scalars) ==
    LET got == get_array(m, opacity.val, preference)
        clip(x) == IF x > Fixed(1) THEN Fixed(1) ELSE IF x < 0 THEN 0 ELSE x
    IN IF got.found
       THEN [status |-> LengthCheck(scalars, got.val), custom |-> TRUE,
             opacity |-> Arr([i \in DOMAIN got.val |-> clip(got.val[i])]),
             warnings |-> RangeWarnings(got.val)]
       ELSE [status |-> "ok", custom |-> FALSE,
             opacity |-> Arr(opacity_transfer_function(opacity, n_colors)),
             warnings |-> {}]

StringBranch(m, opacity, preference, n_colors, scalars) ==
    LET got == get_array(m, opacity.val, preference)
    IN IF got.found
       THEN [status |-> LengthCheck(scalars, got.val), custom |-> TRUE,
             opacity |-> Arr(got.val), warnings |-> RangeWarnings(got.val)]
       ELSE [status |-> "ok", custom |-> FALSE,
             opacity |-> Arr(opacity_transfer_function(opacity, n_colors)),
             warnings |-> {}]

\* lines 144-150: opacity is an array, a list or a tuple
ArrayBranchAlwaysCustom(m, opacity, n_colors) ==
    [status |-> "ok", custom |-> TRUE, opacity |-> opacity, warnings |-> {}]

ArrayBranch(m, opacity, n_colors) ==
    IF Len(opacity.val) \in {m.n_cells, m.n_points}
    THEN [status |-> "ok", custom |-> TRUE, opacity |-> opacity, warnings |-> {}]
    ELSE [status |-> "ok", custom |-> FALSE,
          opacity |-> Arr(opacity_transfer_function(opacity, n_colors)),
          warnings |-> {}]

\* 1 - opacity and 255 - opacity, elementwise on an array
Minus(c, opacity) ==
    IF opacity.type = "array"
    THEN Arr([i \in DOMAIN opacity.val |-> c - opacity.val[i]])
    ELSE Float(c - opacity.val)

\* lines 152-155
TransparencyAlways255(use_transparency, opacity) ==
    IF use_transparency /\ opacity.type = "array"
    THEN Minus(Fixed(255), opacity)
    ELSE opacity

Transparency(use_transparency, opacity) ==
    IF use_transparency /\ np_max(opacity) <= Fixed(1)
    THEN Minus(Fixed(1), opacity)
    ELSE IF use_transparency /\ opacity.type = "array"
    THEN Minus(Fixed(255), opacity)
    ELSE opacity

\* the whole call: the returned pair, or the exception raised
process_opacity(m, opacity, preference, n_colors, scalars, use_transparency) ==
    LET r == IF opacity.type = "str"
             THEN StringBranch(m, opacity, preference, n_colors, scalars)
             ELSE IF opacity.type = "array"
             THEN ArrayBranch(m, opacity, n_colors)
             ELSE [status |-> "ok", custom |-> FALSE, opacity |-> opacity,
                   warnings |-> {}]
    IN IF r.status # "ok"
       THEN [status |-> r.status, custom |-> FALSE, opacity |-> Arr(<<>>),
             resolved |-> r.opacity, warnings |-> r.warnings]
       ELSE [status |-> "ok", custom |-> r.custom,
             opacity |-> Transparency(use_transparency, r.opacity),
             resolved |-> r.opacity, warnings |-> r.warnings]

\* ------------------------------------------------------------------- state
VARIABLES
    mesh,      \* the caller's mesh object
    before,    \* the caller's mesh object as it was when the last call began
    sargs,     \* the arguments of the last prepare_smooth_shading call
    sret,      \* its outcome
    omesh,     \* the dataset process_opacity is called on
    oargs,     \* the arguments of the process_opacity call
    oret       \* its outcome

vars == <<mesh, before, sargs, sret, omesh, oargs, oret>>

FeatureAngles == {30, 60}
SharpAngles == {0, 45}

\* injective sequences of 0-based point ids: the orders a surface can come in
Surfaces(n) ==
    UNION {{s \in [1..k -> 0..(n - 1)] : \A i, j \in 1..k : i # j => s[i] # s[j]}
           : k \in 1..n}

\* the datasets a caller can hold: points with distinct coordinates, texture
\* coordinates attached, a surface mesh or a mesh whose surface is extracted
MeshesOf(n, p) ==
    {[poly |-> p,
      points |-> [i \in 1..n |-> i],
      pd |-> (TCoords :> [i \in 1..n |-> 10 + i]),
      sharp |-> sh,
      surf |-> su]
     : sh \in [1..n -> SharpAngles],
       su \in (IF p THEN {arange(n)} ELSE Surfaces(n))}

Meshes == UNION {MeshesOf(n, p) : n \in 1..MaxPoints, p \in BOOLEAN}

\* scalars: absent, or one value per point of the caller's mesh
ScalarInputs(n) ==
    {None, Some([i \in 1..n |-> 20 + i]), Some([i \in 1..n |-> i % 2])}

NoCall == [called |-> FALSE]

InitShading ==
    /\ mesh \in Meshes
    /\ before = mesh
    /\ sargs = NoCall
    /\ sret = NoCall
    /\ omesh = NoCall /\ oargs = NoCall /\ oret = NoCall

PrepareSmoothShading ==
    \E scalars \in ScalarInputs(n_points(mesh)), texture \in BOOLEAN,
       split_sharp_edges \in BOOLEAN, feature_angle \in FeatureAngles :
        LET r == prepare_smooth_shading(mesh, scalars, texture,
                                        split_sharp_edges, feature_angle)
        IN /\ before' = mesh
           /\ sargs' = [called |-> TRUE, scalars |-> scalars, texture |-> texture,
                        split_sharp_edges |-> split_sharp_edges,
                        feature_angle |-> feature_angle]
           /\ sret' = [called |-> TRUE, status |-> r.status, mesh |-> r.mesh,
                       scalars |-> r.scalars, same |-> r.same]
           /\ mesh' = r.caller
           /\ UNCHANGED <<omesh, oargs, oret>>

NextShading == PrepareSmoothShading

SpecShading == InitShading /\ [][NextShading]_vars

\* ---------------------------------------------------- process_opacity calls
OpName == "op"
OpVals == {-1, 1, Fixed(1), 3, Fixed(200)}
CurveVals == {1, 3, Fixed(200)}

PointArrays(n) == {<<>>} \cup [1..n -> OpVals]

\* datasets: point and cell counts, and an attribute "op" held per point,
\* per cell, both or not at all (<<>> stands for no such array)
OpacityMeshes ==
    UNION {{[n_points |-> np, n_cells |-> nc,
             point_data |-> IF pa = <<>> THEN <<>> ELSE (OpName :> pa),
             cell_data |-> IF hasC THEN (OpName :> [i \in 1..nc |-> 1]) ELSE <<>>]
            : pa \in PointArrays(np), hasC \in BOOLEAN}
           : np \in 1..MaxElems, nc \in 1..MaxElems}

OpacityInputs(type) ==
    IF type = "str" THEN {Str(OpName), Str("linear")}
    ELSE IF type = "array"
    THEN {Arr(a) : a \in UNION {[1..k -> CurveVals] : k \in 1..(MaxElems + 1)}}
    ELSE {Float(1), Float(3)}

OpacityScalars == {None} \cup {Some([i \in 1..k |-> 0]) : k \in 1..MaxElems}

InitOpacity ==
    /\ mesh = NoCall /\ before = NoCall /\ sargs = NoCall /\ sret = NoCall
    /\ omesh \in OpacityMeshes
    /\ oargs = NoCall
    /\ oret = NoCall

\* one call of the function on the dataset; the function keeps no state and
\* writes nothing, so one call per behaviour covers every call
ProcessOpacity ==
    /\ ~oret.called
    /\ \E type \in {"str", "array", "float"} :
       \E opacity \in OpacityInputs(type), preference \in {"point", "cell"},
          n_colors \in {2, 4}, scalars \in OpacityScalars,
          use_transparency \in BOOLEAN :
        /\ oargs' = [called |-> TRUE, opacity |-> opacity,
                     preference |-> preference, n_colors |-> n_colors,
                     scalars |-> scalars, use_transparency |-> use_transparency]
        /\ oret' = [called |-> TRUE] @@
                   process_opacity(omesh, opacity, preference, n_colors,
                                   scalars, use_transparency)
    /\ UNCHANGED <<mesh, before, sargs, sret, omesh>>

NextOpacity == ProcessOpacity

SpecOpacity == InitOpacity /\ [][NextOpacity]_vars

\* ============================================== prepare_smooth_shading claims
\* the point of the mesh the call was given that output point i comes from:
\* the one with the same coordinates
SourceOf(i) ==
    CHOOSE k \in 1..n_points(before) : before.points[k] = sret.mesh.points[i]

Returned == sret.called /\ sret.status = "ok"

\* an original-index array exists: the surface was extracted, or sharp edges
\* are split on a surface mesh
IndexArrayExists == ~before.poly \/ sargs.split_sharp_edges

\* C1: whatever the flags, the returned mesh has no '__orig_ids__' array in
\* its point attribute table.
C1_NoOrigIdsReturned ==
    Returned => OrigIds \notin DOMAIN sret.mesh.pd

\* C2: with scalars given and an original-index array in use, the returned
\* scalars have one entry per point of the returned mesh, and each entry is
\* the input scalar of the point it was extracted or duplicated from.
C2_ScalarsFollowPoints ==
    (Returned /\ ~sargs.scalars.none /\ IndexArrayExists) =>
        /\ ~sret.scalars.none
        /\ Len(sret.scalars.val) = n_points(sret.mesh)
        /\ \A i \in 1..n_points(sret.mesh) :
               sret.scalars.val[i] = sargs.scalars.val[SourceOf(i)]

\* the surface came out in another order than the input's, an edge split
\* duplicated a point, and scalars with distinct values were re-indexed
C2_Witness ==
    /\ Returned /\ ~sargs.scalars.none /\ ~before.poly
    /\ sargs.split_sharp_edges
    /\ before.surf # arange(Len(before.surf))
    /\ n_points(sret.mesh) > Len(before.surf)
    /\ Cardinality(Range(sargs.scalars.val)) = n_points(before)

\* C3: with texture truthy, the texture coordinates on the returned mesh
\* have one entry per output point, each the texture coordinate its source
\* point had on the caller's input mesh, whichever index array is active.
C3_TCoordsFollowPoints ==
    (Returned /\ sargs.texture) =>
        /\ Len(sret.mesh.pd[TCoords]) = n_points(sret.mesh)
        /\ \A i \in 1..n_points(sret.mesh) :
               sret.mesh.pd[TCoords][i] = before.pd[TCoords][SourceOf(i)]

\* C4: outside the path (surface input, no edge splitting) the caller's mesh
\* has the same points and the same set of point attributes after the call.
C4_CallerUntouched ==
    (sret.called /\ ~(before.poly /\ ~sargs.split_sharp_edges)) =>
        /\ mesh.points = before.points
        /\ DOMAIN mesh.pd = DOMAIN before.pd

\* ===================================================== process_opacity claims
OReturned == oret.called /\ oret.status = "ok"

\* the named attribute the call looks up
Looked == get_array(omesh, oargs.opacity.val, oargs.preference)

NamesAttribute == oret.called /\ oargs.opacity.type = "str" /\ Looked.found

\* C5: a true flag means one opacity value per dataset element (point count
\* or cell count); a false flag, for a str or array opacity, means exactly
\* n_colors values, those of the curve generator.
C5_FlagTellsLength ==
    (OReturned /\ oargs.opacity.type \in {"str", "array"}) =>
        /\ oret.custom =>
               Len(oret.opacity.val) \in {omesh.n_points, omesh.n_cells}
        /\ ~oret.custom =>
               /\ Len(oret.opacity.val) = oargs.n_colors
               /\ oret.resolved.val =
                      opacity_transfer_function(oargs.opacity, oargs.n_colors)
        /\ (NamesAttribute /\ oret.custom) =>
               Len(oret.opacity.val) = Len(oargs.scalars.val)

\* both outcomes with lengths that tell them apart: a literal array whose
\* length is not n_colors
C5_Witness ==
    /\ OReturned /\ oret.custom /\ oargs.opacity.type = "array"
    /\ Len(oret.opacity.val) = omesh.n_cells
    /\ omesh.n_cells # omesh.n_points
    /\ Len(oret.opacity.val) # oargs.n_colors

\* C6: a named attribute of length N with scalars of length M # N raises
\* ValueError: no result, no fallback to the curve generator.
C6_MismatchRaises ==
    (NamesAttribute /\ ~oargs.scalars.none
        /\ Len(oargs.scalars.val) # Len(Looked.val)) =>
        /\ oret.status = "ValueError"
        /\ ~oret.custom
        /\ oret.opacity.val = <<>>

C6_Witness ==
    /\ NamesAttribute /\ ~oargs.scalars.none
    /\ Len(oargs.scalars.val) # Len(Looked.val)
    /\ oret.status = "ValueError"

\* C7: a str naming no attribute is handed to the curve generator: the call
\* returns (false, curve) with n_colors values, and no scalars length check.
C7_UnknownNameFallsBack ==
    (oret.called /\ oargs.opacity.type = "str" /\ ~Looked.found) =>
        /\ oret.status = "ok"
        /\ ~oret.custom
        /\ oret.resolved.val =
               opacity_transfer_function(oargs.opacity, oargs.n_colors)
        /\ Len(oret.opacity.val) = oargs.n_colors

\* the name is on no table of the dataset and scalars is absent
C7_Witness ==
    /\ oret.called /\ oargs.opacity.type = "str" /\ ~Looked.found
    /\ oargs.scalars.none
    /\ oret.status = "ok" /\ Len(oret.opacity.val) = oargs.n_colors

AllIn(a, lo, hi) == \A i \in DOMAIN a : lo <= a[i] /\ a[i] <= hi

ResolvedValues ==
    IF oret.resolved.type = "array" THEN oret.resolved.val
    ELSE <<oret.resolved.val>>

\* C8 as stated: use_transparency gives 1 - original on values in [0,1] and
\* 255 - original on a literal per-element array with values in [0,255];
\* without use_transparency the values are unchanged.
C8_Original ==
    OReturned =>
        /\ (oargs.use_transparency /\ AllIn(ResolvedValues, 0, Fixed(1))) =>
               oret.opacity = Minus(Fixed(1), oret.resolved)
        /\ (oargs.use_transparency /\ oret.custom
                /\ AllIn(ResolvedValues, 0, Fixed(255))) =>
               oret.opacity = Minus(Fixed(255), oret.resolved)
        /\ ~oargs.use_transparency => oret.opacity = oret.resolved

\* C8 amended: 255 - original is returned for a literal per-element array
\* with values in [0,255] of which at least one exceeds 1; values all in
\* [0,1] give 1 - original; without use_transparency nothing changes.
C8_Amended ==
    OReturned =>
        /\ (oargs.use_transparency /\ AllIn(ResolvedValues, 0, Fixed(1))) =>
               oret.opacity = Minus(Fixed(1), oret.resolved)
        /\ (oargs.use_transparency /\ oret.custom
                /\ AllIn(ResolvedValues, 0, Fixed(255))
                /\ \E i \in DOMAIN ResolvedValues :
                       ResolvedValues[i] > Fixed(1)) =>
               oret.opacity = Minus(Fixed(255), oret.resolved)
        /\ ~oargs.use_transparency => oret.opacity = oret.resolved

\* a literal array holding a value within [0,1] next to one above 1
C8_Witness ==
    /\ OReturned /\ oargs.use_transparency /\ oret.custom
    /\ AllIn(ResolvedValues, 0, Fixed(255))
    /\ \E i, j \in DOMAIN ResolvedValues :
           ResolvedValues[i] > Fixed(1) /\ ResolvedValues[j] <= Fixed(1)

OutOfRange(a) == \E i \in DOMAIN a : a[i] > Fixed(1) \/ a[i] < 0

\* C9: a named attribute with a value above 1 or below 0 and a matching
\* scalars length: the warning is emitted, the call returns with the flag
\* true, and without use_transparency the values come back unclipped.
C9_RangeWarningAdvisory ==
    (NamesAttribute /\ ~oargs.scalars.none
        /\ Len(oargs.scalars.val) = Len(Looked.val)
        /\ OutOfRange(Looked.val)) =>
        /\ oret.status = "ok"
        /\ oret.custom
        /\ oret.warnings = RangeWarnings(Looked.val)
        /\ oret.warnings # {}
        /\ ~oargs.use_transparency => oret.opacity.val = Looked.val

\* the attribute holds 1.5
C9_Witness ==
    /\ NamesAttribute /\ ~oargs.scalars.none
    /\ Len(oargs.scalars.val) = Len(Looked.val)
    /\ \E i \in DOMAIN Looked.val : Looked.val[i] = 3
    /\ ~oargs.use_transparency
    /\ oret.status = "ok" /\ oret.opacity.val = Looked.val

\* C10: a named attribute with scalars absent: no length check, no error of
\* any kind, the call returns (true, the named array).
C10_NoScalarsNoCheck ==
    (NamesAttribute /\ oargs.scalars.none) =>
        /\ oret.status = "ok"
        /\ oret.custom
        /\ oret.resolved.val = Looked.val

====
